---- MODULE Spec2Model ----
(***************************************************************************)
(* Model of the integration-test orchestrator of job-platform              *)
(* (run_integration_tests.py, class IntegrationTestRunner).                *)
(*                                                                         *)
(* One behaviour of the model is one invocation of main(): the runner is   *)
(* constructed from the command-line flags, run() walks through the        *)
(* dependency check, the environment-file check, the start of the compose  *)
(* stack, the readiness polling, the module tests, the cleanup and the     *)
(* summary, and main() turns run()'s result into the process exit code.    *)
(* Everything outside the script (docker, docker-compose, the probes, the  *)
(* module test commands, the file system, the clock) is an input chosen    *)
(* nondeterministically at the step that consults it.                      *)
(*                                                                         *)
(* Time is counted in seconds since wait_for_services took start_time.     *)
(***************************************************************************)
EXTENDS Integers, Sequences, FiniteSets

VARIABLES
    pc,          \* the statement of main()/run() that executes next
    verbose,     \* self.verbose
    no_cleanup,  \* self.no_cleanup
    services,    \* the configured services, in iteration order
    submodules,  \* the configured modules, in list order
    ret,         \* what each method returned so far in this run
    svc,         \* wait_for_services: index of the service being awaited
    elapsed,     \* wait_for_services: time.time() - start_time
    results,     \* run_submodule_tests: the list of result dicts
    total_passed,\* print_summary: counter
    total_failed,\* print_summary: counter
    exitCode,    \* exit status of the process, -1 while it is running
    \* history of the run, not read by the program
    trace,       \* environment commands issued so far, in order
    probes,      \* number of readiness checks started in the phase in progress
    readyLate,   \* some service was accepted from a check that returned after the deadline
    outcomes,    \* how each module's test command ended, in order
    inputs,      \* how each command that was run with check=True ended
    missing_files,\* check_env_files: the required files that do not exist
    clock,       \* seconds since wait_for_services began, as the wall clock has them
    ready,       \* services that answered "ready" to a check started before the deadline
    lastAnswer,  \* answer of the latest readiness check of the phase in progress
    stderrs,     \* what each module's test command wrote to stderr, in order
    printed,     \* the log() calls of the latest step that have written to stdout
    \* the world outside the process
    live,        \* number of compose stacks that are up
    runs,        \* number of invocations of main() so far
    leftover,    \* number of stacks that were up when this invocation began
    \* a second invocation, of the same configuration but the other --verbose
    twin         \* the state of the invocation that is not executing

vars == <<pc, verbose, no_cleanup, services, submodules, ret, svc, elapsed,
          results, total_passed, total_failed, exitCode,
          trace, probes, readyLate, outcomes, inputs, missing_files,
          clock, ready, lastAnswer, live, runs, leftover,
          stderrs, printed, twin>>

----------------------------------------------------------------------------
(* Bounds of the model *)

MaxServices == 2
MaxModules == 2
MaxRuns == 2

(* Program constants *)

Timeout == 180        \* run(): self.wait_for_services(180)
SleepInterval == 5    \* wait_for_services: time.sleep(5)
CheckTimeout == 5     \* _check_database / _check_api: timeout=5

ServiceNames == <<"test_db", "test_api", "service_3", "service_4">>
ModuleNames == <<"job-bot", "job_aggregator", "module_3", "module_4">>
RequiredFiles == {".env.dev", ".env.hh.dev"}

(* How subprocess.run(..., check=True) can end *)
RunOutcomes == {"ok", "CalledProcessError", "FileNotFoundError", "OSError"}

(* How one readiness check can end, seen from the polling loop *)
ProbeOutcomes == {"ready", "not_ready", "exception"}

(* How one module's test command can end *)
TestOutcomes == {"exit0", "nonzero", "TimeoutExpired", "Exception"}

(* process.stderr: empty or not *)
StderrTexts == {"", "stderr"}

Methods == {"check_dependencies", "check_env_files", "start_test_environment",
            "wait_for_services", "run_submodule_tests", "cleanup_environment",
            "print_summary", "run"}

(* The commands that are run with check=True *)
Commands == {"docker", "docker-compose", "python", "down_remove_orphans", "up", "down"}

Bool2Ret(b) == IF b THEN "True" ELSE "False"

Cmd(c, a) == [cmd |-> c, arg |-> a]

Prefix(s, n) == SubSeq(s, 1, n)

----------------------------------------------------------------------------
(* The state of one invocation, as a record: everything but the            *)
(* configuration, which the two invocations of a pair share.               *)
Current ==
    [pc |-> pc, verbose |-> verbose, ret |-> ret, svc |-> svc, elapsed |-> elapsed,
     results |-> results, total_passed |-> total_passed,
     total_failed |-> total_failed, exitCode |-> exitCode, trace |-> trace,
     probes |-> probes, readyLate |-> readyLate, outcomes |-> outcomes,
     inputs |-> inputs, missing_files |-> missing_files, clock |-> clock,
     ready |-> ready, lastAnswer |-> lastAnswer, stderrs |-> stderrs,
     printed |-> printed, live |-> live]

----------------------------------------------------------------------------
(* __init__ and the start of main() *)

Start ==
    /\ pc = "check_dependencies"
    /\ verbose \in BOOLEAN
    /\ no_cleanup \in BOOLEAN
    /\ \E n \in 0..MaxServices : services = Prefix(ServiceNames, n)
    /\ \E n \in 0..MaxModules : submodules = Prefix(ModuleNames, n)
    /\ ret = [m \in Methods |-> "none"]
    /\ svc = 1
    /\ elapsed = 0
    /\ results = <<>>
    /\ total_passed = 0
    /\ total_failed = 0
    /\ exitCode = -1
    /\ trace = <<>>
    /\ probes = 0
    /\ readyLate = FALSE
    /\ outcomes = <<>>
    /\ inputs = [c \in Commands |-> "none"]
    /\ missing_files = {}
    /\ clock = 0
    /\ ready = {}
    /\ lastAnswer = "none"
    /\ stderrs = <<>>
    /\ printed = {}
    /\ live = 0
    /\ runs = 1
    /\ leftover = 0

(* a single invocation *)
Nobody == [pc |-> "none"]

Init == Start /\ twin = Nobody

----------------------------------------------------------------------------
(* log(message, level="INFO"): the message is printed if self.verbose is   *)
(* set or the level is ERROR, WARNING or SUCCESS.  A call of log() is      *)
(* named by its line in the script.                                        *)

ShownLevels == {"ERROR", "WARNING", "SUCCESS"}

Call(line, level) == [line |-> line, level |-> level]

log(v, calls) == {c.line : c \in {x \in calls : v \/ x.level \in ShownLevels}}

(* The log() calls each method makes, given what it was handed.            *)

check_dependencies_log(docker, compose, python) ==
    {Call("L52", "INFO")}
    \cup (IF docker = "ok" THEN {Call("L62", "INFO")}
          ELSE IF docker \in {"CalledProcessError", "FileNotFoundError"}
          THEN {Call("L64", "ERROR")}
          ELSE {})
    \cup (IF docker # "ok" THEN {}
          ELSE IF compose = "ok" THEN {Call("L75", "INFO")}
          ELSE IF compose \in {"CalledProcessError", "FileNotFoundError"}
          THEN {Call("L77", "ERROR")}
          ELSE {})
    \cup (IF docker # "ok" \/ compose # "ok" THEN {}
          ELSE IF python = "ok" THEN {Call("L88", "INFO")}
          ELSE IF python = "CalledProcessError" THEN {Call("L90", "ERROR")}
          ELSE {})

check_env_files_log(existing) ==
    {Call("L97", "INFO")}
    \cup (IF RequiredFiles \ existing = {}
          THEN {Call("L114", "INFO")}
          ELSE {Call("L110", "ERROR"), Call("L111", "ERROR")})

(* except CalledProcessError as e: ... if not self.verbose and e.stderr    *)
start_test_environment_log(v, down, up, stderr) ==
    {Call("L119", "INFO"), Call("L123", "INFO")}
    \cup (IF down = "ok" THEN {Call("L133", "INFO")} ELSE {})
    \cup (IF down = "CalledProcessError" \/ (down = "ok" /\ up = "CalledProcessError")
          THEN {Call("L143", "ERROR")}
               \cup (IF ~v /\ stderr # "" THEN {Call("L145", "ERROR")} ELSE {})
          ELSE {})

(* except Exception as e: if self.verbose: self.log(...)                   *)
check_function_log(v, answer) ==
    {Call("L152", "INFO"), Call("L170", "INFO")}
    \cup (IF answer = "ready" THEN {Call("L179", "INFO")}
          ELSE IF answer = "exception" /\ v THEN {Call("L184", "INFO")}
          ELSE {})

service_not_ready_log ==
    {Call("L152", "INFO"), Call("L170", "INFO"), Call("L188", "ERROR"),
     Call("L326", "WARNING")}

wait_for_services_log == {Call("L152", "INFO"), Call("L192", "INFO")}

(* else: self.log(..., "ERROR"); if not self.verbose: the last lines       *)
run_single_test_log(v, outcome) ==
    {Call("L217", "INFO"), Call("L247", "INFO")}
    \cup (IF outcome = "exit0" THEN {Call("L282", "SUCCESS")}
          ELSE IF outcome = "nonzero"
          THEN {Call("L284", "ERROR")}
               \cup (IF ~v THEN {Call("L288", "ERROR")} ELSE {})
          ELSE IF outcome = "TimeoutExpired" THEN {Call("L295", "ERROR")}
          ELSE {Call("L298", "ERROR")})

run_submodule_tests_log == {Call("L217", "INFO")}

cleanup_environment_log(nc, down) ==
    IF nc THEN {Call("L305", "INFO")}
    ELSE {Call("L308", "INFO")}
         \cup (IF down = "ok" THEN {Call("L318", "INFO")}
               ELSE IF down = "CalledProcessError" THEN {Call("L321", "ERROR")}
               ELSE {})

----------------------------------------------------------------------------
(* check_dependencies: docker, docker-compose and the Python interpreter   *)
(* are probed in this order; the first failing probe ends the method.      *)
(* The first two probes catch CalledProcessError and FileNotFoundError,    *)
(* the third only CalledProcessError; anything else leaves the method as   *)
(* an exception.                                                           *)

check_dependencies_result(docker, compose, python) ==
    IF docker \in {"CalledProcessError", "FileNotFoundError"} THEN "False"
    ELSE IF docker # "ok" THEN "raised"
    ELSE IF compose \in {"CalledProcessError", "FileNotFoundError"} THEN "False"
    ELSE IF compose # "ok" THEN "raised"
    ELSE IF python = "CalledProcessError" THEN "False"
    ELSE IF python # "ok" THEN "raised"
    ELSE "True"

(* variant: only the first required file is looked at *)
check_env_files_first_only(existing) ==
    Bool2Ret(".env.dev" \in existing)

(* check_env_files: missing_files is empty *)
check_env_files_result(existing) ==
    Bool2Ret(RequiredFiles \ existing = {})

(* start_test_environment: "down -v --remove-orphans", then "up -d", both  *)
(* inside one try that catches CalledProcessError only.                    *)
start_test_environment_result(down, up) ==
    IF down = "CalledProcessError" THEN "False"
    ELSE IF down # "ok" THEN "raised"
    ELSE IF up = "CalledProcessError" THEN "False"
    ELSE IF up # "ok" THEN "raised"
    ELSE "True"

(* variant: the bring-up is not preceded by the forced tear-down *)
start_test_environment_commands_no_teardown(down) == <<Cmd("up", "")>>

start_test_environment_commands(down) ==
    IF down = "ok"
    THEN <<Cmd("down_remove_orphans", ""), Cmd("up", "")>>
    ELSE <<Cmd("down_remove_orphans", "")>>

(* What the compose tool does to the stacks: a tear-down that exits 0      *)
(* leaves no stack, a bring-up that exits 0 adds one; a tear-down that     *)
(* fails may or may not have removed the stack, a bring-up that exits      *)
(* non-zero may have left a partial stack, and a command that could not be *)
(* launched changes nothing.  The result is the set of possible counts.    *)
StackEffect(l, c, o) ==
    IF c \in {"down_remove_orphans", "down"}
    THEN (IF o = "ok" THEN {0}
          ELSE IF o = "CalledProcessError" THEN {0, l}
          ELSE {l})
    ELSE IF c = "up"
    THEN (IF o = "ok" THEN {l + 1}
          ELSE IF o = "CalledProcessError" THEN {l, l + 1}
          ELSE {l})
    ELSE {l}

RECURSIVE StackAfter(_, _, _)
StackAfter(ls, cmds, out) ==
    IF cmds = <<>> THEN ls
    ELSE StackAfter(UNION {StackEffect(l, Head(cmds).cmd, out[Head(cmds).cmd]) : l \in ls},
                    Tail(cmds), out)

(* run() leaves through "return False" or through an exception that no     *)
(* frame catches; main() then sets the exit status.                        *)
RunEnds(r, method, value, runValue) ==
    [r EXCEPT ![method] = value, !["run"] = runValue]

(* run(): if not self.check_dependencies(): return False *)
check_dependencies ==
    /\ pc = "check_dependencies"
    /\ \E docker \in RunOutcomes, compose \in RunOutcomes, python \in RunOutcomes :
         LET v == check_dependencies_result(docker, compose, python) IN
           /\ inputs' = [inputs EXCEPT
                  !["docker"] = docker,
                  !["docker-compose"] = IF docker = "ok" THEN compose ELSE "none",
                  !["python"] = IF docker = "ok" /\ compose = "ok" THEN python ELSE "none"]
           /\ printed' =
                  log(verbose, check_dependencies_log(docker, compose, python))
           /\ IF v = "True"
              THEN /\ ret' = [ret EXCEPT !["check_dependencies"] = v]
                   /\ pc' = "check_env_files"
              ELSE /\ ret' = RunEnds(ret, "check_dependencies", v, v)
                   /\ pc' = "main"
    /\ UNCHANGED <<verbose, no_cleanup, services, submodules, svc, elapsed,
                   results, total_passed, total_failed, exitCode,
                   trace, probes, readyLate, outcomes, missing_files,
                   clock, ready, lastAnswer, live, runs, leftover, stderrs, twin>>

(* run(): if not self.check_env_files(): return False *)
check_env_files ==
    /\ pc = "check_env_files"
    /\ \E existing \in SUBSET RequiredFiles :
         LET v == check_env_files_result(existing) IN
           /\ missing_files' = RequiredFiles \ existing
           /\ printed' = log(verbose, check_env_files_log(existing))
           /\ IF v = "True"
              THEN /\ ret' = [ret EXCEPT !["check_env_files"] = v]
                   /\ pc' = "start_test_environment"
              ELSE /\ ret' = RunEnds(ret, "check_env_files", v, v)
                   /\ pc' = "main"
    /\ UNCHANGED <<verbose, no_cleanup, services, submodules, svc, elapsed,
                   results, total_passed, total_failed, exitCode,
                   trace, probes, readyLate, outcomes, inputs,
                   clock, ready, lastAnswer, live, runs, leftover, stderrs, twin>>

(* run(): if not self.start_test_environment(): return False *)
start_test_environment ==
    /\ pc = "start_test_environment"
    /\ \E down \in RunOutcomes, up \in RunOutcomes, stderr \in StderrTexts :
         LET v == start_test_environment_result(down, up) IN
           /\ trace' = trace \o start_test_environment_commands(down)
           /\ printed' =
                  log(verbose, start_test_environment_log(verbose, down, up, stderr))
           /\ live' \in StackAfter({live}, start_test_environment_commands(down),
                                   [c \in {"down_remove_orphans", "up"} |->
                                       IF c = "up" THEN up ELSE down])
           /\ inputs' = [inputs EXCEPT
                  !["down_remove_orphans"] = down,
                  !["up"] = IF down = "ok" THEN up ELSE "none"]
           /\ IF v = "True"
              THEN /\ ret' = [ret EXCEPT !["start_test_environment"] = v]
                   /\ pc' = "wait_for_services"
              ELSE /\ ret' = RunEnds(ret, "start_test_environment", v, v)
                   /\ pc' = "main"
    /\ UNCHANGED <<verbose, no_cleanup, services, submodules, svc, elapsed,
                   results, total_passed, total_failed, exitCode,
                   probes, readyLate, outcomes, missing_files,
                   clock, ready, lastAnswer, runs, leftover, stderrs, twin>>

----------------------------------------------------------------------------
(* wait_for_services: the services are awaited one after the other under   *)
(* one start_time.  One step of the model is one pass through the body of  *)
(* the while loop: a readiness check that takes up to CheckTimeout seconds *)
(* and, unless it answered "ready", the sleep that follows it.             *)

(* variant: the deadline itself still admits a check *)
loop_continues_at_deadline(e) == e <= Timeout

(* while time.time() - start_time < timeout and not service_ready *)
loop_continues(e) == e < Timeout

(* time.sleep(5) in the else branch and in the except branch *)
sleep_after(answer) == IF answer = "ready" THEN 0 ELSE SleepInterval

(* variant: the deadline starts afresh for each service *)
elapsed_after_fresh_deadline(e, answer, duration) ==
    IF answer = "ready" THEN 0 ELSE e + duration + SleepInterval

(* variant: the except branch does not sleep *)
elapsed_after_no_sleep_on_exception(e, answer, duration) ==
    IF answer = "not_ready" THEN e + duration + SleepInterval ELSE e + duration

(* the clock after one pass through the loop body *)
elapsed_after(e, answer, duration) ==
    IF answer = "ready" THEN e + duration ELSE e + duration + SleepInterval

(* variant: a check that raised lets the service pass *)
next_service_on_exception(s, answer) ==
    IF answer \in {"ready", "exception"} THEN s + 1 ELSE s

(* service_ready = True ends the while loop and the for loop moves on *)
next_service(s, answer) == IF answer = "ready" THEN s + 1 ELSE s

(* the trace keeps one entry for a run of checks of the same service *)
IssueProbe(t, name) ==
    IF Len(t) > 0 /\ t[Len(t)] = Cmd("probe", name)
    THEN t
    ELSE Append(t, Cmd("probe", name))

(* one readiness check of the current service and what follows it *)
check_function ==
    /\ pc = "wait_for_services"
    /\ svc <= Len(services)
    /\ loop_continues(elapsed)
    /\ \E answer \in ProbeOutcomes, duration \in 0..CheckTimeout :
         /\ elapsed' = elapsed_after(elapsed, answer, duration)
         /\ svc' = next_service(svc, answer)
         /\ readyLate' = (readyLate \/ (answer = "ready" /\ elapsed + duration > Timeout))
         /\ clock' = clock + duration + sleep_after(answer)
         /\ ready' = IF answer = "ready" /\ clock < Timeout
                     THEN ready \cup {services[svc]}
                     ELSE ready
         /\ lastAnswer' = answer
         /\ printed' = log(verbose, check_function_log(verbose, answer))
    /\ probes' = probes + 1
    /\ trace' = IssueProbe(trace, services[svc])
    /\ UNCHANGED <<pc, verbose, no_cleanup, services, submodules, ret,
                   results, total_passed, total_failed, exitCode, outcomes,
                   inputs, missing_files,
                   live, runs, leftover, stderrs, twin>>

(* variant: after the dump the for loop goes on with the next service *)
service_not_ready_continues ==
    /\ pc = "wait_for_services"
    /\ svc <= Len(services)
    /\ ~loop_continues(elapsed)
    /\ trace' = Append(trace, Cmd("logs", ""))
    /\ printed' = log(verbose, service_not_ready_log)
    /\ svc' = svc + 1
    /\ UNCHANGED <<pc, verbose, no_cleanup, services, submodules, ret, elapsed,
                   results, total_passed, total_failed, exitCode,
                   probes, readyLate, outcomes, inputs, missing_files,
                   clock, ready, lastAnswer, live, runs, leftover, stderrs, twin>>

(* if not service_ready: log, _show_container_logs(), return False;        *)
(* run() then calls cleanup_environment() and returns False                *)
service_not_ready ==
    /\ pc = "wait_for_services"
    /\ svc <= Len(services)
    /\ ~loop_continues(elapsed)
    /\ trace' = Append(trace, Cmd("logs", ""))
    /\ printed' = log(verbose, service_not_ready_log)
    /\ ret' = [ret EXCEPT !["wait_for_services"] = "False"]
    /\ pc' = "cleanup_environment"
    /\ elapsed' = 0
    /\ svc' = 1
    /\ clock' = 0
    /\ probes' = 0
    /\ lastAnswer' = "none"
    /\ UNCHANGED <<verbose, no_cleanup, services, submodules,
                   results, total_passed, total_failed, exitCode,
                   readyLate, outcomes,
                   inputs, missing_files,
                   ready, live, runs, leftover, stderrs, twin>>

(* variant: an empty service list is reported as a failure *)
wait_for_services_needs_a_service ==
    /\ pc = "wait_for_services"
    /\ svc > Len(services)
    /\ printed' = log(verbose, wait_for_services_log)
    /\ ret' = [ret EXCEPT !["wait_for_services"] = Bool2Ret(Len(services) > 0)]
    /\ pc' = IF Len(services) > 0 THEN "run_submodule_tests" ELSE "cleanup_environment"
    /\ elapsed' = 0
    /\ svc' = 1
    /\ clock' = 0
    /\ probes' = 0
    /\ lastAnswer' = "none"
    /\ UNCHANGED <<verbose, no_cleanup, services, submodules,
                   results, total_passed, total_failed, exitCode,
                   trace, readyLate, outcomes, inputs, missing_files,
                   ready, live, runs, leftover, stderrs, twin>>

(* the for loop is exhausted: return True *)
wait_for_services ==
    /\ pc = "wait_for_services"
    /\ svc > Len(services)
    /\ printed' = log(verbose, wait_for_services_log)
    /\ ret' = [ret EXCEPT !["wait_for_services"] = "True"]
    /\ pc' = "run_submodule_tests"
    /\ elapsed' = 0
    /\ svc' = 1
    /\ clock' = 0
    /\ probes' = 0
    /\ lastAnswer' = "none"
    /\ UNCHANGED <<verbose, no_cleanup, services, submodules,
                   results, total_passed, total_failed, exitCode,
                   trace, readyLate, outcomes,
                   inputs, missing_files,
                   ready, live, runs, leftover, stderrs, twin>>

----------------------------------------------------------------------------
(* run_submodule_tests and _run_single_test *)

(* variant: the timeout handler leaves result["error"] as initialised *)
single_test_result_silent_timeout(name, outcome, stderr) ==
    IF outcome = "exit0"
    THEN [name |-> name, success |-> TRUE, output |-> "stdout", error |-> stderr]
    ELSE IF outcome = "nonzero"
    THEN [name |-> name, success |-> FALSE, output |-> "stdout", error |-> stderr]
    ELSE IF outcome = "TimeoutExpired"
    THEN [name |-> name, success |-> FALSE, output |-> "", error |-> ""]
    ELSE [name |-> name, success |-> FALSE, output |-> "", error |-> "str(e)"]

(* variant: without --verbose the excerpt shown for a failed module is     *)
(* also what its result keeps as the error                                 *)
single_test_result_with_excerpt(name, outcome, stderr) ==
    IF outcome = "exit0"
    THEN [name |-> name, success |-> TRUE, output |-> "stdout", error |-> stderr]
    ELSE IF outcome = "nonzero"
    THEN [name |-> name, success |-> FALSE, output |-> "stdout",
          error |-> IF verbose THEN stderr ELSE "last lines"]
    ELSE IF outcome = "TimeoutExpired"
    THEN [name |-> name, success |-> FALSE, output |-> "", error |-> "timeout (10 min)"]
    ELSE [name |-> name, success |-> FALSE, output |-> "", error |-> "str(e)"]

(* the result dict of one module *)
single_test_result(name, outcome, stderr) ==
    IF outcome = "exit0"
    THEN [name |-> name, success |-> TRUE, output |-> "stdout", error |-> stderr]
    ELSE IF outcome = "nonzero"
    THEN [name |-> name, success |-> FALSE, output |-> "stdout", error |-> stderr]
    ELSE IF outcome = "TimeoutExpired"
    THEN [name |-> name, success |-> FALSE, output |-> "", error |-> "timeout (10 min)"]
    ELSE [name |-> name, success |-> FALSE, output |-> "", error |-> "str(e)"]

(* for submodule in submodules: results.append(self._run_single_test(submodule)) *)
next_submodule(rs) == Len(rs) + 1

(* variant: the loop breaks after the first failed module *)
tests_remaining_until_failure(rs, mods) ==
    /\ Len(rs) < Len(mods)
    /\ (IF rs = <<>> THEN TRUE ELSE rs[Len(rs)].success)

(* the for loop has a module left *)
tests_remaining(rs, mods) == Len(rs) < Len(mods)

run_single_test ==
    /\ pc = "run_submodule_tests"
    /\ tests_remaining(results, submodules)
    /\ \E outcome \in TestOutcomes, stderr \in StderrTexts :
         LET name == submodules[next_submodule(results)] IN
           /\ results' = Append(results, single_test_result(name, outcome, stderr))
           /\ outcomes' = Append(outcomes, outcome)
           /\ stderrs' = Append(stderrs, IF outcome \in {"exit0", "nonzero"}
                                         THEN stderr ELSE "")
           /\ printed' = log(verbose, run_single_test_log(verbose, outcome))
           /\ trace' = Append(trace, Cmd("test", name))
    /\ UNCHANGED <<pc, verbose, no_cleanup, services, submodules, ret, svc, elapsed,
                   total_passed, total_failed, exitCode, probes, readyLate,
                   inputs, missing_files,
                   clock, ready, lastAnswer, live, runs, leftover, twin>>

(* return results *)
run_submodule_tests ==
    /\ pc = "run_submodule_tests"
    /\ ~tests_remaining(results, submodules)
    /\ ret' = [ret EXCEPT !["run_submodule_tests"] = "results"]
    /\ printed' = log(verbose, run_submodule_tests_log)
    /\ pc' = "cleanup_environment"
    /\ UNCHANGED <<verbose, no_cleanup, services, submodules, svc, elapsed,
                   results, total_passed, total_failed, exitCode,
                   trace, probes, readyLate, outcomes,
                   inputs, missing_files,
                   clock, ready, lastAnswer, live, runs, leftover, stderrs, twin>>

----------------------------------------------------------------------------
(* cleanup_environment: nothing is run under --no-cleanup; otherwise       *)
(* "down -v", with only CalledProcessError caught.                         *)

cleanup_environment_result(nc, down) ==
    IF nc THEN "True"
    ELSE IF down = "ok" THEN "True"
    ELSE IF down = "CalledProcessError" THEN "False"
    ELSE "raised"

(* variant: --no-cleanup is not consulted *)
cleanup_environment_commands_always(nc) == <<Cmd("down", "")>>

(* variant: the tear-down is issued twice *)
cleanup_environment_commands_twice(nc) ==
    IF nc THEN <<>> ELSE <<Cmd("down", ""), Cmd("down", "")>>

cleanup_environment_commands(nc) ==
    IF nc THEN <<>> ELSE <<Cmd("down", "")>>

(* called from run() after a failed wait_for_services (result dropped,     *)
(* return False) and after run_submodule_tests (result kept)               *)
cleanup_environment ==
    /\ pc = "cleanup_environment"
    /\ \E down \in RunOutcomes :
         /\ inputs' = [inputs EXCEPT !["down"] = IF no_cleanup THEN "none" ELSE down]
         /\ printed' = log(verbose, cleanup_environment_log(no_cleanup, down))
         /\ LET v == cleanup_environment_result(no_cleanup, down) IN
              IF v = "raised"
              THEN /\ ret' = RunEnds(ret, "cleanup_environment", v, v)
                   /\ pc' = "main"
              ELSE IF ret["wait_for_services"] = "False"
              THEN /\ ret' = RunEnds(ret, "cleanup_environment", v, "False")
                   /\ pc' = "main"
              ELSE /\ ret' = [ret EXCEPT !["cleanup_environment"] = v]
                   /\ pc' = "print_summary"
         /\ live' \in StackAfter({live}, cleanup_environment_commands(no_cleanup),
                                 [c \in {"down"} |-> down])
    /\ trace' = trace \o cleanup_environment_commands(no_cleanup)
    /\ UNCHANGED <<verbose, no_cleanup, services, submodules, svc, elapsed,
                   results, total_passed, total_failed, exitCode,
                   probes, readyLate, outcomes, missing_files,
                   clock, ready, lastAnswer, runs, leftover, stderrs, twin>>

----------------------------------------------------------------------------
(* print_summary and the final status of run() *)

RECURSIVE count_passed(_)
count_passed(rs) ==
    IF rs = <<>> THEN 0
    ELSE (IF Head(rs).success THEN 1 ELSE 0) + count_passed(Tail(rs))

(* variant: every result is counted as failed *)
count_failed_all(rs) == Len(rs)

RECURSIVE count_failed(_)
count_failed(rs) ==
    IF rs = <<>> THEN 0
    ELSE (IF Head(rs).success THEN 0 ELSE 1) + count_failed(Tail(rs))

(* variant: the verdict of the summary is inverted *)
print_summary_result_inverted(failed) == failed # 0

(* return True if total_failed == 0 else False *)
print_summary_result(failed) == failed = 0

(* variant: the cleanup result does not enter the final status *)
run_result_ignoring_cleanup(success, cleanup_success) == success

(* if success and cleanup_success: return True; else: return False *)
run_result(success, cleanup_success) == success /\ cleanup_success

print_summary ==
    /\ pc = "print_summary"
    /\ printed' = {}
    /\ total_passed' = count_passed(results)
    /\ total_failed' = count_failed(results)
    /\ LET success == print_summary_result(count_failed(results))
           cleanup_success == (ret["cleanup_environment"] = "True")
       IN ret' = RunEnds(ret, "print_summary", Bool2Ret(success),
                         Bool2Ret(run_result(success, cleanup_success)))
    /\ pc' = "main"
    /\ UNCHANGED <<verbose, no_cleanup, services, submodules, svc, elapsed,
                   results, exitCode, trace, probes, readyLate, outcomes,
                   inputs, missing_files,
                   clock, ready, lastAnswer, live, runs, leftover, stderrs, twin>>

----------------------------------------------------------------------------
(* main(): sys.exit(0 if success else 1); an exception that leaves run()   *)
(* ends the interpreter with status 1.                                     *)

exit_status(runValue) == IF runValue = "True" THEN 0 ELSE 1

main ==
    /\ pc = "main"
    /\ exitCode' = exit_status(ret["run"])
    /\ printed' = {}
    /\ pc' = "done"
    /\ UNCHANGED <<verbose, no_cleanup, services, submodules, ret, svc, elapsed,
                   results, total_passed, total_failed,
                   trace, probes, readyLate, outcomes,
                   inputs, missing_files,
                   clock, ready, lastAnswer, live, runs, leftover, stderrs, twin>>

Next ==
    \/ check_dependencies
    \/ check_env_files
    \/ start_test_environment
    \/ check_function
    \/ service_not_ready
    \/ wait_for_services
    \/ run_single_test
    \/ run_submodule_tests
    \/ cleanup_environment
    \/ print_summary
    \/ main

Spec == Init /\ [][Next]_vars

(* A run is a sequential program: it takes its next step as long as it has *)
(* one.                                                                    *)
FairSpec == Spec /\ WF_vars(Next)

(* main() is invoked again, with flags of its own, on the machine the      *)
(* previous invocation left behind.                                        *)
next_run ==
    /\ pc = "done"
    /\ runs < MaxRuns
    /\ runs' = runs + 1
    /\ leftover' = live
    /\ pc' = "check_dependencies"
    /\ verbose' \in BOOLEAN
    /\ no_cleanup' \in BOOLEAN
    /\ ret' = [m \in Methods |-> "none"]
    /\ svc' = 1
    /\ elapsed' = 0
    /\ results' = <<>>
    /\ total_passed' = 0
    /\ total_failed' = 0
    /\ exitCode' = -1
    /\ trace' = <<>>
    /\ probes' = 0
    /\ readyLate' = FALSE
    /\ outcomes' = <<>>
    /\ inputs' = [c \in Commands |-> "none"]
    /\ missing_files' = {}
    /\ clock' = 0
    /\ ready' = {}
    /\ lastAnswer' = "none"
    /\ stderrs' = <<>>
    /\ printed' = {}
    /\ UNCHANGED <<services, submodules, live, twin>>

NextRuns == Next \/ next_run

SpecRuns == Init /\ [][NextRuns]_vars

----------------------------------------------------------------------------
(* Two invocations of main() that differ only in --verbose, each on a      *)
(* machine of its own, taken through their steps in turn: the invocation   *)
(* that is executing takes a step with whatever its environment gives it,  *)
(* the two change places, and the other takes its step in an environment   *)
(* that gives the same.                                                    *)

(* How far an invocation has come: the statement it is at, the readiness   *)
(* checks it has started in the phase in progress and the modules it has   *)
(* run.  Every step takes an invocation further.                           *)
PcRank(p) ==
    CASE p = "check_dependencies" -> 1
      [] p = "check_env_files" -> 2
      [] p = "start_test_environment" -> 3
      [] p = "wait_for_services" -> 4
      [] p = "run_submodule_tests" -> 5
      [] p = "cleanup_environment" -> 6
      [] p = "print_summary" -> 7
      [] p = "main" -> 8
      [] OTHER -> 9

Ahead(s, t) ==
    \/ PcRank(s.pc) > PcRank(t.pc)
    \/ /\ s.pc = t.pc
       /\ \/ s.probes > t.probes
          \/ s.probes = t.probes /\ Len(s.results) > Len(t.results)

EquallyFar == ~Ahead(Current, twin) /\ ~Ahead(twin, Current)

(* In a pair, a readiness check answers at once or when its timeout is up. *)
PairDurations == {0, CheckTimeout}

(* the time the readiness check of the step being taken needed *)
CheckTook == clock' - clock - sleep_after(lastAnswer')

(* the step being taken is given what the step of t, the invocation that   *)
(* is one step ahead, was given: the same end of every command both have   *)
(* run, the same missing files, the same end and stderr of every test      *)
(* command both have run, the same answer of the readiness check after the *)
(* same time (the wall clocks agree)                                       *)
SameOutcomes(t) ==
    /\ \A c \in Commands :
          (inputs'[c] # "none" /\ t.inputs[c] # "none") => inputs'[c] = t.inputs[c]
    /\ (pc = "check_env_files" /\ t.ret["check_env_files"] # "none") =>
          missing_files' = t.missing_files
    /\ \A i \in (DOMAIN outcomes') \cap (DOMAIN t.outcomes) :
          outcomes'[i] = t.outcomes[i] /\ stderrs'[i] = t.stderrs[i]
    /\ (lastAnswer' # "none" /\ t.lastAnswer # "none") =>
          (lastAnswer' = t.lastAnswer /\ clock' = t.clock)

(* both have come equally far: the one executing goes on *)
lead ==
    /\ EquallyFar
    /\ Next
    /\ lastAnswer' # "none" => CheckTook \in PairDurations

(* the one executing is a step ahead: the other one executes *)
change_places ==
    /\ Ahead(Current, twin)
    /\ twin' = Current
    /\ pc' = twin.pc
    /\ verbose' = twin.verbose
    /\ ret' = twin.ret
    /\ svc' = twin.svc
    /\ elapsed' = twin.elapsed
    /\ results' = twin.results
    /\ total_passed' = twin.total_passed
    /\ total_failed' = twin.total_failed
    /\ exitCode' = twin.exitCode
    /\ trace' = twin.trace
    /\ probes' = twin.probes
    /\ readyLate' = twin.readyLate
    /\ outcomes' = twin.outcomes
    /\ inputs' = twin.inputs
    /\ missing_files' = twin.missing_files
    /\ clock' = twin.clock
    /\ ready' = twin.ready
    /\ lastAnswer' = twin.lastAnswer
    /\ stderrs' = twin.stderrs
    /\ printed' = twin.printed
    /\ live' = twin.live
    /\ UNCHANGED <<no_cleanup, services, submodules, runs, leftover>>

(* the one executing is a step behind: it catches up *)
follow ==
    /\ Ahead(twin, Current)
    /\ Next
    /\ SameOutcomes(twin)

NextPair == lead \/ change_places \/ follow

InitPair == Start /\ twin = [Current EXCEPT !.verbose = ~verbose]

SpecPair == InitPair /\ [][NextPair]_vars

----------------------------------------------------------------------------
TypeOK ==
    /\ pc \in {"check_dependencies", "check_env_files", "start_test_environment",
               "wait_for_services", "run_submodule_tests", "cleanup_environment",
               "print_summary", "main", "done"}
    /\ verbose \in BOOLEAN
    /\ no_cleanup \in BOOLEAN
    /\ \A m \in Methods : ret[m] \in {"none", "True", "False", "raised", "results"}
    /\ \A c \in Commands : inputs[c] \in RunOutcomes \cup {"none"}
    /\ missing_files \subseteq RequiredFiles
    /\ svc \in 1..(Len(services) + 1)
    /\ elapsed \in 0..(Timeout + CheckTimeout + SleepInterval)
    /\ Len(results) <= Len(submodules)
    /\ exitCode \in {-1, 0, 1}
    /\ clock = elapsed
    /\ ready \subseteq {services[i] : i \in DOMAIN services}
    /\ lastAnswer \in ProbeOutcomes \cup {"none"}
    /\ live \in 0..1
    /\ runs \in 1..MaxRuns
    /\ leftover \in 0..1
    /\ Len(stderrs) = Len(outcomes)

----------------------------------------------------------------------------
(* Vocabulary of the properties *)

Issued(c) == \E i \in DOMAIN trace : trace[i].cmd = c

CountCmd(c) == Cardinality({i \in DOMAIN trace : trace[i].cmd = c})

Failed(c) == inputs[c] \notin {"none", "ok"}

DependencyCheckFailed == Failed("docker") \/ Failed("docker-compose") \/ Failed("python")

ConfigCheckFailed == missing_files # {}

StartFailed == Failed("down_remove_orphans") \/ Failed("up")

StopFailed == Failed("down")

TestPhaseReached == ret["wait_for_services"] = "True"

TestExecutorInvoked ==
    pc = "run_submodule_tests" \/ ret["run_submodule_tests"] # "none"

AllModulesPassed ==
    /\ Len(results) = Len(submodules)
    /\ \A i \in DOMAIN results : results[i].success

AllExitZero ==
    /\ Len(outcomes) = Len(submodules)
    /\ \A i \in DOMAIN outcomes : outcomes[i] = "exit0"

CleanupSucceededOrSuppressed == no_cleanup \/ inputs["down"] = "ok"

(* some service gave no "ready" answer before the deadline: either the     *)
(* phase failed, or a service was accepted from an answer that came late   *)
SomeServiceNotReadyBeforeDeadline ==
    ret["wait_for_services"] = "False" \/ readyLate

----------------------------------------------------------------------------
(* C1: whenever start_test_environment fails (in its tear-down or in its   *)
(* bring-up), no service is probed and no test is run, and the run does    *)
(* not terminate without the cleanup tear-down having been issued, unless  *)
(* no_cleanup is set.                                                      *)
C1_StartFailureStillCleansUp ==
    /\ StartFailed => (probes = 0 /\ ~Issued("probe") /\ ~Issued("test"))
    /\ (pc = "done" /\ StartFailed /\ ~no_cleanup) => Issued("down")

(* C2: a terminated run has exit code 0 or 1, and it is 0 exactly when the *)
(* test phase was reached, every module's result has success = TRUE and    *)
(* the cleanup succeeded or was suppressed by no_cleanup.                  *)
C2_ExitCode ==
    pc = "done" =>
        /\ exitCode \in {0, 1}
        /\ exitCode = 0 <=>
              (TestPhaseReached /\ AllModulesPassed /\ CleanupSucceededOrSuppressed)

C2_Witness ==
    /\ pc = "done"
    /\ exitCode = 0
    /\ Len(results) >= 1
    /\ inputs["down"] = "ok"

C4_NoCleanupNeverStops ==
    no_cleanup =>
        /\ ~Issued("down")
        /\ inputs["down"] = "none"
        /\ ret["cleanup_environment"] \in {"none", "True"}

C4_Witness ==
    /\ pc = "done"
    /\ no_cleanup
    /\ ret["cleanup_environment"] = "True"
    /\ \E i \in DOMAIN results : ~results[i].success

(* C5: run_submodule_tests returns one result per configured module, in    *)
(* configuration order and under the module's name, whatever the outcomes  *)
(* of the modules were.                                                    *)
C5_OneResultPerModule ==
    /\ Len(results) <= Len(submodules)
    /\ \A i \in DOMAIN results : results[i].name = submodules[i]
    /\ ret["run_submodule_tests"] # "none" => Len(results) = Len(submodules)

C5_Witness ==
    /\ ret["run_submodule_tests"] = "results"
    /\ Len(results) = 2
    /\ ~results[1].success
    /\ results[2].success

(* C6: a module that timed out or could not be launched has success =      *)
(* FALSE and a non-empty error text; a result has success = TRUE exactly   *)
(* when that module's own command exited 0; and a run in which a module    *)
(* timed out still produces all results and reaches the cleanup.           *)
C6_FailureIsolation ==
    /\ Len(outcomes) = Len(results)
    /\ \A i \in DOMAIN results :
          /\ outcomes[i] \in {"TimeoutExpired", "Exception"} =>
                (~results[i].success /\ results[i].error # "")
          /\ results[i].success <=> outcomes[i] = "exit0"
    /\ (pc = "done" /\ \E i \in DOMAIN outcomes : outcomes[i] = "TimeoutExpired") =>
          (Len(results) = Len(submodules) /\ ret["cleanup_environment"] # "none")

C6_Witness ==
    /\ pc = "done"
    /\ Len(results) = 2
    /\ outcomes[1] = "TimeoutExpired"
    /\ results[2].success
    /\ ret["print_summary"] = "False"

(* C7: when the dependency check or the environment-file check fails, no   *)
(* environment command is ever issued (no tear-down, bring-up, probe, log  *)
(* dump, test or cleanup) and the run ends with exit code 1.               *)
C7_FailClosed ==
    (DependencyCheckFailed \/ ConfigCheckFailed) =>
        /\ trace = <<>>
        /\ probes = 0
        /\ ret["run"] # "True"
        /\ pc = "done" => exitCode = 1

C7_Witness ==
    /\ pc = "done"
    /\ ConfigCheckFailed
    /\ exitCode = 1

(* C8: however the cleanup tear-down fails, cleanup_environment returns    *)
(* False, and the run still prints the summary (when the tests were run)   *)
(* and returns a boolean.                                                  *)
C8_StopNeverRaises ==
    /\ StopFailed => ret["cleanup_environment"] = "False"
    /\ (pc = "done" /\ StopFailed) =>
          /\ ret["run"] \in {"True", "False"}
          /\ TestPhaseReached => ret["print_summary"] # "none"

(* C9: when every module passed and the cleanup tear-down failed, the      *)
(* summary is printed with total_failed = 0, run() returns False and the   *)
(* exit code is 1.                                                         *)
C9_CleanupFailureDowngrades ==
    (pc = "done" /\ TestPhaseReached /\ AllModulesPassed /\ StopFailed) =>
        /\ ret["print_summary"] = "True"
        /\ total_failed = 0
        /\ ret["run"] = "False"
        /\ exitCode = 1

(* C10 as stated: when the test phase is reached and every module's        *)
(* command exits 0, the summary has total_failed = 0 and the exit code is  *)
(* 0.  Stated for the runs in which run() returns.                         *)
C10_Original ==
    (pc = "done" /\ ret["run"] # "raised" /\ TestPhaseReached /\ AllExitZero) =>
        /\ ret["print_summary"] = "True"
        /\ total_failed = 0
        /\ exitCode = 0

(* C10 amended: when the test phase is reached, every module's command     *)
(* exits 0 and the cleanup succeeded or was suppressed by no_cleanup, the  *)
(* summary has total_failed = 0 and the exit code is 0.                    *)
C10_AllPassExitZero ==
    (pc = "done" /\ TestPhaseReached /\ AllExitZero /\ CleanupSucceededOrSuppressed) =>
        /\ ret["print_summary"] = "True"
        /\ total_failed = 0
        /\ total_passed = Len(submodules)
        /\ exitCode = 0

C10_Witness ==
    /\ pc = "done"
    /\ AllExitZero
    /\ Len(results) = 2
    /\ inputs["down"] = "ok"
    /\ exitCode = 0

(* C11: at most one compose stack is ever up, over successive invocations  *)
(* that may find the stack of the previous one still up; and after a       *)
(* successful start, until the cleanup, exactly one is up.                 *)
C11_AtMostOneStack ==
    /\ live <= 1
    /\ (ret["start_test_environment"] = "True" /\ ret["cleanup_environment"] = "none")
          => live = 1

C11_Witness ==
    /\ runs = 2
    /\ leftover = 1
    /\ ret["start_test_environment"] = "True"
    /\ live = 1

(* C12: the bring-up is only issued after the forced tear-down succeeded;  *)
(* a failed tear-down means no bring-up; and whenever one of the two steps *)
(* fails, start_test_environment returns False.                            *)
C12_StartReportsFailure ==
    /\ Issued("up") =>
          (trace[1].cmd = "down_remove_orphans" /\ inputs["down_remove_orphans"] = "ok")
    /\ Failed("down_remove_orphans") => ~Issued("up")
    /\ StartFailed => ret["start_test_environment"] = "False"

(* C13: a readiness check is started only while less than Timeout seconds  *)
(* have passed since the phase began, whichever service it is for; the     *)
(* time the loop compares with the deadline is the time since the phase    *)
(* began and is never set back between services.                           *)
C13_SharedDeadline ==
    [][/\ probes' > probes => clock < Timeout
       /\ (pc = "wait_for_services" /\ pc' = "wait_for_services") =>
             (clock' >= clock /\ elapsed' = clock')]_vars

C13_Witness ==
    /\ ret["wait_for_services"] = "False"
    /\ Len(services) = 2
    /\ ready = {"test_db"}
    /\ trace[Len(trace) - 1] = Cmd("probe", "test_db")
    /\ trace[Len(trace)] = Cmd("logs", "")

(* C20: the readiness checks of one phase that did not end in an accepted  *)
(* "ready" number at most ceil(Timeout / SleepInterval), and the run       *)
(* reaches its end with an exit status.                                    *)
FailedProbes == probes - Cardinality(ready)

MaxFailedProbes == (Timeout + SleepInterval - 1) \div SleepInterval

C20_PollingTerminates ==
    /\ [](pc = "wait_for_services" => FailedProbes <= MaxFailedProbes)
    /\ <>(pc = "done" /\ exitCode \in {0, 1})

C20_Witness ==
    /\ pc = "wait_for_services"
    /\ FailedProbes = MaxFailedProbes
    /\ ~loop_continues(elapsed)

IsProbe(c) == c.cmd = "probe"

ProbedServices == SelectSeq(trace, IsProbe)

C15_InOrderAbort ==
    /\ Len(ProbedServices) <= Len(services)
    /\ \A i \in DOMAIN ProbedServices : ProbedServices[i].arg = services[i]
    /\ Len(ProbedServices) <= Cardinality(ready) + 1
    /\ ret["wait_for_services"] = "False" =>
          /\ CountCmd("logs") = 1
          /\ trace[Len(ProbedServices) + 3] = Cmd("logs", "")
    /\ ret["wait_for_services"] # "False" => CountCmd("logs") = 0

C15_Witness ==
    /\ ret["wait_for_services"] = "False"
    /\ Len(services) = 2
    /\ ready = {}
    /\ ProbedServices = <<Cmd("probe", "test_db")>>
    /\ CountCmd("logs") = 1

(* C16: a readiness check that raises leaves the run in the polling loop   *)
(* with the same service and nothing returned, the loop sleeps for the     *)
(* interval, and the same service is checked again if the deadline has not *)
(* been reached; a "ready" answer that follows an exception is accepted.   *)
C16_ProbeExceptionRetried ==
    [][/\ (probes' > probes /\ lastAnswer' = "exception") =>
             /\ pc' = "wait_for_services"
             /\ svc' = svc
             /\ ret' = ret
             /\ elapsed' >= elapsed + SleepInterval
             /\ elapsed' < Timeout => (svc' <= Len(services) /\ loop_continues(elapsed'))
       /\ (lastAnswer = "exception" /\ probes' > probes /\ lastAnswer' = "ready") =>
             /\ svc' = svc + 1
             /\ services[svc] \in ready']_vars

C16_Witness ==
    /\ pc = "wait_for_services"
    /\ lastAnswer = "exception"
    /\ loop_continues(elapsed)
    /\ ready = {"test_db"}
    /\ svc = 2

(* C17: with no service configured the readiness phase issues no check and *)
(* no log dump, takes no time and returns True, and the run goes on to     *)
(* run_submodule_tests.                                                    *)
C17_NoServices ==
    Len(services) = 0 =>
        /\ probes = 0
        /\ ~Issued("probe")
        /\ ~Issued("logs")
        /\ clock = 0
        /\ ret["wait_for_services"] \in {"none", "True"}
        /\ (ret["start_test_environment"] = "True" /\ pc # "wait_for_services") =>
              (TestPhaseReached /\ TestExecutorInvoked)

C17_Witness ==
    /\ Len(services) = 0
    /\ pc = "run_submodule_tests"
    /\ trace = <<Cmd("down_remove_orphans", ""), Cmd("up", "")>>

(* C18: the summary counts the results with success as total_passed and    *)
(* the others as total_failed, the two add up to the number of modules,    *)
(* the summary's verdict is total_failed = 0, and a run with a failed      *)
(* module returns False and exits with 1.                                  *)
C18_SummaryTotals ==
    ret["print_summary"] # "none" =>
        /\ total_passed = Cardinality({i \in DOMAIN results : results[i].success})
        /\ total_failed = Cardinality({i \in DOMAIN results : ~results[i].success})
        /\ total_passed + total_failed = Len(submodules)
        /\ ret["print_summary"] = "True" <=> total_failed = 0
        /\ (pc = "done" /\ total_failed > 0) => (ret["run"] = "False" /\ exitCode = 1)

C18_Witness ==
    /\ pc = "done"
    /\ outcomes = <<"exit0", "nonzero">>
    /\ total_passed = 1
    /\ total_failed = 1
    /\ ret["run"] = "False"
    /\ exitCode = 1

(* C19: a phase is entered only after the one before it succeeded (the     *)
(* cleanup also after a failed readiness phase), no command of a phase is  *)
(* issued twice, the cleanup tear-down is issued at most once, and a run   *)
(* that entered the test phase ends with the cleanup and the summary done. *)
C19_PhaseOrder ==
    /\ ret["check_env_files"] # "none" => ret["check_dependencies"] = "True"
    /\ ret["start_test_environment"] # "none" => ret["check_env_files"] = "True"
    /\ ret["wait_for_services"] # "none" => ret["start_test_environment"] = "True"
    /\ TestExecutorInvoked => ret["wait_for_services"] = "True"
    /\ ret["cleanup_environment"] # "none" =>
          \/ ret["wait_for_services"] = "False"
          \/ ret["run_submodule_tests"] # "none"
    /\ ret["print_summary"] # "none" =>
          (ret["run_submodule_tests"] # "none" /\ ret["cleanup_environment"] # "none")
    /\ \A c \in {"down_remove_orphans", "up", "logs", "down"} : CountCmd(c) <= 1
    /\ CountCmd("test") <= Len(submodules)
    /\ (pc = "done" /\ TestExecutorInvoked) =>
          (ret["cleanup_environment"] # "none" /\ ret["print_summary"] # "none")

(* C21: the verbose flag affects only what is logged.  Of two invocations  *)
(* that differ only in verbose and are given the same outcome by every     *)
(* external command and readiness check, whenever both have come equally   *)
(* far (in particular when both have ended) the sequence of environment    *)
(* commands issued, the per-module results and the exit status are the     *)
(* same.                                                                   *)
C21_VerboseOnlyLogs ==
    EquallyFar =>
        /\ trace = twin.trace
        /\ results = twin.results
        /\ exitCode = twin.exitCode

C21_Witness ==
    /\ EquallyFar
    /\ pc = "done"
    /\ twin.pc = "done"
    /\ verbose # twin.verbose
    /\ inputs = twin.inputs
    /\ outcomes = twin.outcomes
    /\ Issued("down_remove_orphans") /\ Issued("up") /\ Issued("probe")
    /\ Issued("test") /\ Issued("down")
    /\ \E i \in DOMAIN outcomes : outcomes[i] = "nonzero"
    /\ ret["print_summary"] = "False"
    /\ exitCode = 1

(* the two invocations of a pair do not print the same *)
PairLogsDiffer ==
    /\ EquallyFar
    /\ printed # twin.printed
    /\ "L288" \in printed \cup twin.printed

(* of the two invocations of a pair, one has the flag and one has not, and *)
(* when they have come equally far they have returned the same from every  *)
(* method                                                                  *)
PairInStep ==
    /\ twin.verbose # verbose
    /\ EquallyFar => ret = twin.ret

====
